---- MODULE Spec2Model ----
(***************************************************************************)
(* Model of src/app.py: the FakeNewsDetector class (seed training of a     *)
(* CountVectorizer + MultinomialNB, analyze_text, model_based_analysis,    *)
(* extract_article_from_url, generate_summary, extract_features) and the   *)
(* Streamlit pages that drive it (main, render_analysis_page,              *)
(* render_history_page).                                                   *)
(*                                                                         *)
(* A text is a sequence of sentences.  A sentence is a record              *)
(*   [chars |-> its length in characters,                                  *)
(*    words |-> its lower-cased word tokens (nltk.word_tokenize),          *)
(*    marks |-> its punctuation tokens].                                   *)
(* Sentences of a text are separated by one space.  Probabilities are      *)
(* exact rationals over arbitrary-precision naturals (little-endian digit  *)
(* sequences, base 10000), so no rounding enters a comparison.             *)
(***************************************************************************)
EXTENDS Integers, Sequences, FiniteSets, TLC

VARIABLES detector, input, op, arg, ret, fetched, invoked, tokOK, history, shown, page, rendered

vars == <<detector, input, op, arg, ret, fetched, invoked, tokOK, history, shown, page, rendered>>

-----------------------------------------------------------------------------
(* Bounds of the model *)

MaxSents == 4

MaxHist == 2

-----------------------------------------------------------------------------
(* Program constants *)

MinTextLen == 20

MinSummaryLen == 100

MaxSummarySents == 3

MinContentLen == 100

Alpha == 1

-----------------------------------------------------------------------------
(* Arbitrary-precision naturals *)

BigZero == <<>>

BigOne == <<1>>

RECURSIVE BigMulC(_, _, _)
BigMulC(a, k, c) ==
    IF a = <<>>
    THEN IF c = 0 THEN <<>> ELSE <<c % 10000>> \o BigMulC(<<>>, k, c \div 10000)
    ELSE LET v == Head(a) * k + c
         IN  <<v % 10000>> \o BigMulC(Tail(a), k, v \div 10000)

BigMul(a, k) == IF k = 0 THEN BigZero ELSE BigMulC(a, k, 0)

RECURSIVE BigAddC(_, _, _)
BigAddC(a, b, c) ==
    IF a = <<>> /\ b = <<>>
    THEN IF c = 0 THEN <<>> ELSE <<c>>
    ELSE LET x == IF a = <<>> THEN 0 ELSE Head(a)
             y == IF b = <<>> THEN 0 ELSE Head(b)
             v == x + y + c
         IN  <<v % 10000>> \o BigAddC(IF a = <<>> THEN <<>> ELSE Tail(a),
                                      IF b = <<>> THEN <<>> ELSE Tail(b),
                                      v \div 10000)

BigAdd(a, b) == BigAddC(a, b, 0)

RECURSIVE BigLessFrom(_, _, _)
BigLessFrom(a, b, i) ==
    IF i = 0 THEN FALSE
    ELSE IF a[i] # b[i] THEN a[i] < b[i]
    ELSE BigLessFrom(a, b, i - 1)

BigLess(a, b) ==
    IF Len(a) # Len(b) THEN Len(a) < Len(b) ELSE BigLessFrom(a, b, Len(a))

(* Rationals num/den over the naturals above; compared by cross-checking   *)
(* a common denominator, which every pair the model compares has.          *)
Rat(n, d) == [num |-> n, den |-> d]

RatZero == Rat(BigZero, BigOne)

RatLess(p, q) == p.den = q.den /\ BigLess(p.num, q.num)

RatSumIsOne(p, q) == p.den = q.den /\ BigAdd(p.num, q.num) = p.den

-----------------------------------------------------------------------------
(* Texts *)

S(c, w, m) == [chars |-> c, words |-> w, marks |-> m]

RECURSIVE TextLen(_)
TextLen(text) ==
    IF text = <<>> THEN 0
    ELSE IF Len(text) = 1 THEN text[1].chars
    ELSE text[1].chars + 1 + TextLen(Tail(text))

RECURSIVE FlattenWords(_)
FlattenWords(text) ==
    IF text = <<>> THEN <<>> ELSE text[1].words \o FlattenWords(Tail(text))

RECURSIVE FlattenAll(_)
FlattenAll(text) ==
    IF text = <<>> THEN <<>>
    ELSE text[1].words \o text[1].marks \o FlattenAll(Tail(text))

RECURSIVE CountIn(_, _)
CountIn(x, s) ==
    IF s = <<>> THEN 0
    ELSE (IF Head(s) = x THEN 1 ELSE 0) + CountIn(x, Tail(s))

-----------------------------------------------------------------------------
(* FakeNewsDetector.__init__: the seed corpus and the training             *)

Classes == <<"fake", "reliable">>

train_texts ==
    << <<S(9, <<"breaking">>, <<"!">>),
         S(32, <<"shocking", "miracle", "cure", "discovered">>, <<>>)>>,
       <<S(37, <<"secret", "government", "conspiracy", "revealed">>, <<>>)>>,
       <<S(34, <<"experts", "say", "climate", "change", "is", "real">>, <<>>)>>,
       <<S(34, <<"research", "indicates", "vaccine", "is", "safe">>, <<>>)>>,
       <<S(27, <<"nasa", "confirms", "water", "on", "mars">>, <<>>)>>,
       <<S(37, <<"scandal", "leaked", "shocking", "fraud", "exposed">>, <<>>)>>,
       <<S(40, <<"according", "to", "university", "study", "data", "shows">>, <<>>)>>,
       <<S(38, <<"peer-reviewed", "research", "confirms", "safety">>, <<>>)>>,
       <<S(38, <<"government", "officially", "announced", "policy">>, <<>>)>>,
       <<S(36, <<"fraud", "alert", "shocking", "news", "click", "here">>, <<>>)>> >>

train_labels_balanced ==
    <<"fake", "fake", "reliable", "reliable", "reliable",
      "fake", "reliable", "reliable", "fake", "fake">>

train_labels ==
    <<"fake", "fake", "reliable", "reliable", "reliable",
      "fake", "reliable", "reliable", "reliable", "fake">>

(* The members of scikit-learn's English stop-word list that occur in the  *)
(* texts of this model.                                                    *)
StopWords == {"is", "on", "to", "here", "the"}

(* CountVectorizer's token pattern \b\w\w+\b: a hyphen separates tokens.   *)
SplitToken(w) == IF w = "peer-reviewed" THEN <<"peer", "reviewed">> ELSE <<w>>

RECURSIVE SplitAll(_)
SplitAll(ws) == IF ws = <<>> THEN <<>> ELSE SplitToken(Head(ws)) \o SplitAll(Tail(ws))

NotStop(w) == w \notin StopWords

(* CountVectorizer(stop_words="english").build_analyzer() *)
Analyzer(text) == SelectSeq(SplitAll(FlattenWords(text)), NotStop)

Range(s) == {s[i] : i \in DOMAIN s}

RECURSIVE SumOver(_, _)
SumOver(f, D) ==
    IF D = {} THEN 0
    ELSE LET x == CHOOSE y \in D : TRUE IN f[x] + SumOver(f, D \ {x})

(* vectorizer.fit_transform and clf.fit; smoothed_total[c] is the sum over  *)
(* the vocabulary of feature_count[c] + alpha, the denominator of          *)
(* feature_log_prob_                                                       *)
Fit(texts, labels) ==
    LET vocab == UNION {Range(Analyzer(texts[i])) : i \in DOMAIN texts}
        docs(c) == {i \in DOMAIN texts : labels[i] = c}
        fc == [c \in Range(Classes) |->
                 [t \in vocab |->
                    SumOver([i \in docs(c) |-> CountIn(t, Analyzer(texts[i]))], docs(c))]]
    IN  [loaded |-> TRUE,
         vocabulary |-> vocab,
         class_count |-> [c \in Range(Classes) |-> Cardinality(docs(c))],
         feature_count |-> fc,
         smoothed_total |-> [c \in Range(Classes) |->
                               SumOver(fc[c], vocab) + Alpha * Cardinality(vocab)]]

Trained == Fit(train_texts, train_labels)

-----------------------------------------------------------------------------
(* FakeNewsDetector.model_based_analysis                                   *)

(* vectorizer.transform: the analyzer's tokens that are in the vocabulary  *)
Transform(det, text) ==
    LET InVocabulary(t) == t \in det.vocabulary
    IN  SelectSeq(Analyzer(text), InVocabulary)

Other(c) == IF c = "fake" THEN "reliable" ELSE "fake"

RECURSIVE Likelihood(_, _, _, _)
Likelihood(det, c, x, acc) ==
    IF x = <<>> THEN acc
    ELSE Likelihood(det, c, Tail(x),
                    BigMul(BigMul(acc, det.feature_count[c][Head(x)] + Alpha),
                           det.smoothed_total[Other(c)]))

JointPriorOnly(det, c, x) == BigMul(BigOne, det.class_count[c])

(* exp of the joint log likelihood of class c, times the denominator the   *)
(* two classes share: class_count[c] * prod (feature_count + alpha) over   *)
(* the tokens of x, times smoothed_total of the other class per token.     *)
Joint(det, c, x) == Likelihood(det, c, x, BigMul(BigOne, det.class_count[c]))

PredictProbaMisnormalised(det, x) ==
    LET total == BigAdd(Joint(det, "fake", x), Joint(det, "fake", x))
    IN  [c \in Range(Classes) |-> Rat(Joint(det, c, x), total)]

(* clf.predict_proba: each class's joint over the sum of the two           *)
PredictProba(det, x) ==
    LET total == BigAdd(Joint(det, "fake", x), Joint(det, "reliable", x))
    IN  [c \in Range(Classes) |-> Rat(Joint(det, c, x), total)]

PredictArgmin(det, x) ==
    IF BigLess(Joint(det, Classes[1], x), Joint(det, Classes[2], x))
    THEN Classes[1] ELSE Classes[2]

(* clf.predict: classes_[argmax(jll)], the first maximum in classes_ order *)
Predict(det, x) ==
    IF BigLess(Joint(det, Classes[1], x), Joint(det, Classes[2], x))
    THEN Classes[2] ELSE Classes[1]

(* the except branch, lines 158-165 *)
ErrorAnalysis ==
    [verdict |-> "Error", confidence |-> RatZero, color |-> "orange",
     scores |-> [fake_score |-> RatZero, reliable_score |-> RatZero],
     error |-> "exception"]

(* clfOK = FALSE: a call of the vectorizer or the classifier raises *)
model_based_analysis(det, text, clfOK) ==
    IF ~clfOK THEN ErrorAnalysis
    ELSE LET x == Transform(det, text)
             pred == Predict(det, x)
             prob == PredictProba(det, x)
         IN  [verdict |-> IF pred = "fake" THEN "Fake News" ELSE "Reliable",
              confidence |-> IF pred = "fake" THEN prob["fake"] ELSE prob["reliable"],
              color |-> IF pred = "fake" THEN "red" ELSE "green",
              scores |-> [fake_score |-> prob["fake"],
                          reliable_score |-> prob["reliable"]]]

-----------------------------------------------------------------------------
(* FakeNewsDetector.generate_summary, extract_features                     *)

Fault == [fault |-> "LookupError"]

IsFault(r) == DOMAIN r = {"fault"}

First(n, s) == SubSeq(s, 1, IF Len(s) < n THEN Len(s) ELSE n)

summary_four(text, tok) ==
    IF text = <<>> \/ TextLen(text) < MinSummaryLen
    THEN [kind |-> "too_short", text |-> <<>>]
    ELSE IF ~tok THEN [kind |-> "unavailable", text |-> <<>>]
    ELSE [kind |-> "sentences", text |-> First(MaxSummarySents + 1, text)]

(* tok = FALSE: nltk.sent_tokenize / nltk.word_tokenize raise LookupError  *)
(* (the punkt data of lines 29-34 is not available)                        *)
generate_summary(text, tok) ==
    IF text = <<>> \/ TextLen(text) < MinSummaryLen
    THEN [kind |-> "too_short", text |-> <<>>]
    ELSE IF ~tok THEN [kind |-> "unavailable", text |-> <<>>]
    ELSE [kind |-> "sentences",
          text |-> IF Len(text) > MaxSummarySents
                   THEN SubSeq(text, 1, MaxSummarySents) ELSE text]

sensational_words ==
    {"shocking", "miracle", "secret", "breaking", "urgent", "fraud", "scandal"}

reliable_indicators ==
    {"according", "research", "study", "experts", "official", "confirmed"}

(* the keywords that are substrings of word w, for the words of this model *)
Substrings(w) == IF w = "officially" THEN {"official"} ELSE {w}

RECURSIVE CountHits(_, _)
CountHits(ws, keys) ==
    IF ws = <<>> THEN 0
    ELSE (IF Substrings(Head(ws)) \cap keys # {} THEN 1 ELSE 0)
         + CountHits(Tail(ws), keys)

extract_features(text, tok) ==
    IF ~tok THEN Fault
    ELSE LET words == FlattenAll(text)
         IN  [word_count |-> Len(words),
              sentence_count |-> Len(text),
              avg_sentence_length |->
                  IF text # <<>> THEN <<Len(words), Len(text)>> ELSE <<0, 1>>,
              exclamation_count |-> CountIn("!", words),
              sensational_word_count |-> CountHits(words, sensational_words),
              reliable_indicator_count |-> CountHits(words, reliable_indicators)]

-----------------------------------------------------------------------------
(* FakeNewsDetector.analyze_text: the value returned (or the exception     *)
(* raised) and the set of methods it called                                *)

ShortTextError == [error |-> "Text too short for analysis"]

AnalyzeBody(det, text, tok, clfOK) ==
    LET summary == generate_summary(text, tok)
        analysis == model_based_analysis(det, text, clfOK)
        features == extract_features(text, tok)
        called == {"generate_summary", "model_based_analysis", "extract_features"}
    IN  IF IsFault(features)
        THEN [ret |-> Fault, invoked |-> called]
        ELSE [ret |-> [summary |-> summary, analysis |-> analysis,
                       features |-> features,
                       word_count |-> Len(FlattenWords(text)),
                       char_count |-> TextLen(text)],
              invoked |-> called]

analyze_text_unchecked(det, text, tok, clfOK) == AnalyzeBody(det, text, tok, clfOK)

analyze_text(det, text, tok, clfOK) ==
    IF TextLen(text) < MinTextLen
    THEN [ret |-> ShortTextError, invoked |-> {}]
    ELSE AnalyzeBody(det, text, tok, clfOK)

-----------------------------------------------------------------------------
(* FakeNewsDetector.extract_article_from_url.  The outcome of the request  *)
(* and of the parse is the environment's: an exception, or a page with or  *)
(* without a <title> whose extracted, whitespace-normalised content is a   *)
(* text.                                                                   *)

extract_article_from_url(outcome) ==
    IF outcome.kind # "page"
    THEN [title |-> "Error", content |-> <<>>, success |-> FALSE, error |-> outcome.kind]
    ELSE [title |-> IF outcome.hasTitle THEN "Page title" ELSE "No title found",
          content |-> outcome.content,
          success |-> TextLen(outcome.content) > MinContentLen]

-----------------------------------------------------------------------------
(* Inputs *)

SensationalSentence == S(23, <<"shocking", "fraud", "exposed">>, <<".">>)

SourcedSentence == S(37, <<"experts", "say", "research", "confirms", "safety">>, <<".">>)

NeutralSentence ==
    S(68, <<"the", "committee", "met", "on", "tuesday", "to", "review", "the",
            "quarterly", "budget", "figures">>, <<".">>)

ShortSentence == S(11, <<"click", "here">>, <<"!">>)

Kinds == {SensationalSentence, SourcedSentence, NeutralSentence, ShortSentence}

SeqsUpTo(K, n) == UNION {[1..k -> K] : k \in 0..n}

Texts == SeqsUpTo(Kinds, MaxSents) \cup Range(train_texts)

(* what the user pastes, or a fetched page holds: nothing, 11 characters,   *)
(* 23 characters, 137 characters                                           *)
UITexts ==
    {<<>>, <<ShortSentence>>, <<SensationalSentence>>,
     <<NeutralSentence, NeutralSentence>>}

Outcomes(T) ==
    {[kind |-> k] : k \in {"network_error", "parse_error"}}
    \cup {[kind |-> "page", hasTitle |-> h, content |-> c] : h \in BOOLEAN, c \in T}

-----------------------------------------------------------------------------
(* State *)

NoCall == [none |-> TRUE]

Blank == [kind |-> "none"]

(* the options of the sidebar radio, line 360; the bracketed tag stands    *)
(* for the option's emoji                                                  *)
PageOptions == <<"[house] Home", "[news] Analyze Article", "[books] History", "[cap] Learn">>

(* the if/elif chain of main, lines 364-367; line 366 compares with the    *)
(* History label written with two spaces after the emoji                   *)
Dispatch(p) ==
    IF p = "[house] Home" THEN "render_home_page"
    ELSE IF p = "[news] Analyze Article" THEN "render_analysis_page"
    ELSE IF p = "[books]  History" THEN "render_history_page"
    ELSE IF p = "[cap] Learn" THEN "render_learn_page"
    ELSE "none"

(* session start, lines 219-222, and the first run of main with the        *)
(* radio's default option                                                  *)
Start(text) ==
    /\ detector = Trained
    /\ input = text
    /\ tokOK \in BOOLEAN
    /\ history = <<>>
    /\ op = "init"
    /\ arg = <<>>
    /\ ret = NoCall
    /\ fetched = NoCall
    /\ invoked = {}
    /\ shown = Blank
    /\ page = PageOptions[1]
    /\ rendered = Dispatch(PageOptions[1])

Init == Start(<<>>)

-----------------------------------------------------------------------------
(* The pages *)

render_history_page ==
    IF history = <<>> THEN [kind |-> "info", msg |-> "No analyses yet"]
    ELSE [kind |-> "history",
          items |-> [i \in DOMAIN history |->
                       [title |-> history[i].title,
                        verdict |-> history[i].analysis.verdict,
                        confidence |-> history[i].analysis.confidence]]]

(* main: a run of the script with page option p selected *)
Main(p) ==
    /\ op' = "main"
    /\ arg' = p
    /\ page' = p
    /\ rendered' = Dispatch(p)
    /\ shown' = IF Dispatch(p) = "render_history_page" THEN render_history_page ELSE Blank
    /\ ret' = NoCall
    /\ fetched' = NoCall
    /\ invoked' = {}
    /\ UNCHANGED <<detector, input, tokOK, history>>

(* lines 267-273 of render_analysis_page, on article_content with title;   *)
(* the entry's timestamp, which no page logic reads, is left out           *)
AnalyzeAndRecord(title, content, clfOK, calls) ==
    LET r == analyze_text(detector, content, tokOK, clfOK)
        full_result == [title |-> title] @@ r.ret
    IN  /\ ret' = r.ret
        /\ invoked' = calls \cup {"analyze_text"} \cup r.invoked
        /\ IF IsFault(r.ret)
           THEN /\ shown' = [kind |-> "exception"]
                /\ history' = history
           ELSE IF "error" \in DOMAIN r.ret
           THEN /\ shown' = [kind |-> "error", msg |-> r.ret.error]
                /\ history' = history
           ELSE /\ Len(history) < MaxHist
                /\ history' = Append(history, full_result)
                /\ shown' = [kind |-> "results", result |-> full_result]

(* render_analysis_page, "Paste Text" chosen and the button pressed *)
PasteAnalyze(text, clfOK) ==
    /\ rendered = "render_analysis_page"
    /\ op' = "paste"
    /\ arg' = text
    /\ fetched' = NoCall
    /\ IF text = <<>>
       THEN /\ ret' = NoCall
            /\ invoked' = {}
            /\ shown' = Blank
            /\ history' = history
       ELSE AnalyzeAndRecord("Pasted Text Analysis", text, clfOK, {})
    /\ UNCHANGED <<detector, input, tokOK, page, rendered>>

UrlAnalyzeUnchecked(outcome, clfOK) ==
    /\ rendered = "render_analysis_page"
    /\ op' = "url"
    /\ arg' = outcome
    /\ LET result == extract_article_from_url(outcome)
       IN  /\ fetched' = result
           /\ AnalyzeAndRecord(result.title, result.content, clfOK,
                               {"extract_article_from_url"})
    /\ UNCHANGED <<detector, input, tokOK, page, rendered>>

(* render_analysis_page, "Enter URL" chosen, a non-empty URL and the       *)
(* button pressed; outcome is what the request and the parse produce       *)
UrlAnalyze(outcome, clfOK) ==
    /\ rendered = "render_analysis_page"
    /\ op' = "url"
    /\ arg' = outcome
    /\ LET result == extract_article_from_url(outcome)
       IN  /\ fetched' = result
           /\ IF ~result.success
              THEN /\ shown' = [kind |-> "error", msg |-> "Failed to extract content"]
                   /\ ret' = NoCall
                   /\ invoked' = {"extract_article_from_url"}
                   /\ history' = history
              ELSE AnalyzeAndRecord(result.title, result.content, clfOK,
                                    {"extract_article_from_url"})
    /\ UNCHANGED <<detector, input, tokOK, page, rendered>>

-----------------------------------------------------------------------------
(* Direct calls of the detector's methods *)

Call(name, a, r, calls) ==
    /\ op' = name
    /\ arg' = a
    /\ ret' = r
    /\ invoked' = calls
    /\ fetched' = NoCall
    /\ UNCHANGED <<detector, input, tokOK, history, shown, page, rendered>>

Analyze(text, clfOK) ==
    LET r == analyze_text(detector, text, tokOK, clfOK)
    IN  Call("analyze", text, r.ret, {"analyze_text"} \cup r.invoked)

Classify(text, clfOK) ==
    Call("classify", text, model_based_analysis(detector, text, clfOK),
         {"model_based_analysis"})

Summarize(text) ==
    Call("summarize", text, generate_summary(text, tokOK), {"generate_summary"})

ExtractFeatures(text) ==
    Call("extract_features", text, extract_features(text, tokOK), {"extract_features"})

FetchArticle(outcome) ==
    Call("fetch", outcome, extract_article_from_url(outcome),
         {"extract_article_from_url"})

-----------------------------------------------------------------------------
(* The session: the pages, driven by the user *)

Next ==
    \/ \E p \in Range(PageOptions) : Main(p)
    \/ \E t \in UITexts, c \in BOOLEAN : PasteAnalyze(t, c)
    \/ \E o \in Outcomes(UITexts), c \in BOOLEAN : UrlAnalyze(o, c)

Spec == Init /\ [][Next]_vars

(* The detector's methods, called in any order on a text drawn at the     *)
(* start (for extract_article_from_url: a page whose content is that text, *)
(* or a failed request or parse)                                           *)

InitFn == \E t \in Texts : Start(t)

NextFn ==
    \/ \E c \in BOOLEAN : Analyze(input, c)
    \/ \E c \in BOOLEAN : Classify(input, c)
    \/ Summarize(input)
    \/ ExtractFeatures(input)
    \/ \E o \in Outcomes({input}) : FetchArticle(o)

SpecFn == InitFn /\ [][NextFn]_vars

-----------------------------------------------------------------------------
(* Properties *)

AnalysisSteps == {"generate_summary", "model_based_analysis", "extract_features"}

(* the text analyze_text was called on, in a state where it was called *)
AnalyzedText == IF op = "url" THEN fetched.content ELSE arg

(* C1: a call of analyze_text on a text shorter than 20 characters returns *)
(* the short-text error, calls none of generate_summary,                   *)
(* model_based_analysis and extract_features, and leaves the analysis      *)
(* history as it was; on the analysis page the error is what is shown.     *)
C1_ShortTextDoesNothing ==
    [][("analyze_text" \in invoked' /\ TextLen(AnalyzedText') < 20)
        => /\ ret' = [error |-> "Text too short for analysis"]
           /\ invoked' \cap AnalysisSteps = {}
           /\ history' = history
           /\ detector' = detector
           /\ op' = "paste" => shown' = [kind |-> "error",
                                         msg |-> "Text too short for analysis"]]_vars

C1_Witness ==
    /\ op = "paste"
    /\ arg # <<>>
    /\ TextLen(arg) < 20
    /\ ret = [error |-> "Text too short for analysis"]
    /\ history # <<>>

(* C2 as stated: every result of model_based_analysis, the one of the      *)
(* except branch included, has fake_score + reliable_score = 1.            *)
C2_EveryResultSumsToOne ==
    op = "classify" => RatSumIsOne(ret.scores.fake_score, ret.scores.reliable_score)

(* C2 amended: every result of model_based_analysis computed by the        *)
(* classifier has fake_score + reliable_score = 1; the result of the       *)
(* except branch has both scores 0.                                        *)
C2_SumsToOneUnlessError ==
    op = "classify" =>
        IF "error" \in DOMAIN ret
        THEN /\ ret.scores.fake_score = Rat(<<>>, <<1>>)
             /\ ret.scores.reliable_score = Rat(<<>>, <<1>>)
        ELSE RatSumIsOne(ret.scores.fake_score, ret.scores.reliable_score)

C2_Witness ==
    /\ op = "classify"
    /\ "error" \notin DOMAIN ret
    /\ Transform(detector, arg) # <<>>
    /\ ret.scores.fake_score.num # <<>>
    /\ ret.scores.reliable_score.num # <<>>

(* C3: when the fetch of a URL reports success = FALSE, analyze_text and   *)
(* the classifier are not called, nothing is appended to the history, and  *)
(* the message shown is the retrieval error, which is not the short-text   *)
(* error.                                                                  *)
C3_FetchFailureBlocksAnalysis ==
    [][(op' = "url" /\ ~fetched'.success)
        => /\ invoked' \cap ({"analyze_text"} \cup AnalysisSteps) = {}
           /\ ret' = NoCall
           /\ history' = history
           /\ shown'.kind = "error"
           /\ shown'.msg = "Failed to extract content"
           /\ shown'.msg # ShortTextError.error]_vars

C3_Witness ==
    /\ op = "url"
    /\ ~fetched.success
    /\ arg.kind = "page"
    /\ history # <<>>
    /\ shown = [kind |-> "error", msg |-> "Failed to extract content"]

(* C4: for every text of at least 20 characters analyze_text returns a     *)
(* record with summary, analysis and features and never raises; a          *)
(* classifier failure gives the 'Error' verdict with zero scores beside    *)
(* the summary and the features; and neither extract_features nor          *)
(* generate_summary raises when the tokenizer fails.                       *)
C4_NoUnhandledFault ==
    /\ (op = "analyze" /\ TextLen(arg) >= 20)
         => /\ DOMAIN ret = {"summary", "analysis", "features", "word_count", "char_count"}
            /\ "error" \in DOMAIN ret.analysis
                 => /\ ret.analysis.verdict = "Error"
                    /\ ret.analysis.scores.fake_score = Rat(<<>>, <<1>>)
                    /\ ret.analysis.scores.reliable_score = Rat(<<>>, <<1>>)
    /\ op \in {"extract_features", "summarize"} => DOMAIN ret # {"fault"}

(* C5: each of the 10 seed texts is classified with its own training       *)
(* label.                                                                  *)
C5_SeedTextsKeepTheirLabel ==
    \A i \in 1..10 :
        (op = "classify" /\ arg = train_texts[i] /\ "error" \notin DOMAIN ret)
            => ret.verdict = (IF i \in {1, 2, 6, 10} THEN "Fake News" ELSE "Reliable")

C5_Witness ==
    /\ op = "classify"
    /\ arg = train_texts[2]
    /\ ret.verdict = "Fake News"
    /\ "government" \in Range(Transform(detector, arg))

(* C6 as stated: generate_summary returns the 'too short' marker for a     *)
(* text under 100 characters, for a longer text the first three sentences  *)
(* when it has more than three, and all of them otherwise.                 *)
C6_SummaryIsFirstThree ==
    op = "summarize" =>
        /\ TextLen(arg) < 100 => ret.kind = "too_short"
        /\ (TextLen(arg) >= 100 /\ Len(arg) > 3)
             => ret.kind = "sentences" /\ ret.text = SubSeq(arg, 1, 3)
        /\ (TextLen(arg) >= 100 /\ Len(arg) <= 3)
             => ret.kind = "sentences" /\ ret.text = arg

(* C6 amended: as stated when the sentence tokenizer succeeds; when it     *)
(* raises, a text of 100 characters or more gets the 'Summary              *)
(* unavailable' string; a text under 100 characters gets the 'too short'   *)
(* marker either way.                                                      *)
C6_SummaryIsFirstThreeIfTokenized ==
    op = "summarize" =>
        /\ TextLen(arg) < 100 => ret.kind = "too_short"
        /\ (TextLen(arg) >= 100 /\ ~tokOK) => ret.kind = "unavailable"
        /\ (TextLen(arg) >= 100 /\ tokOK /\ Len(arg) > 3)
             => ret.kind = "sentences" /\ ret.text = SubSeq(arg, 1, 3)
        /\ (TextLen(arg) >= 100 /\ tokOK /\ Len(arg) <= 3)
             => ret.kind = "sentences" /\ ret.text = arg

C6_Witness ==
    /\ op = "summarize"
    /\ tokOK
    /\ TextLen(arg) >= 100
    /\ Len(arg) > 3
    /\ Len(ret.text) = 3

(* C7: every result of extract_article_from_url with success = FALSE       *)
(* carries an error field (and the call returns, whatever the request and  *)
(* the parse do).                                                          *)
C7_FailureCarriesError ==
    op = "fetch" => (~ret.success => "error" \in DOMAIN ret)

(* C8 as stated: the seed set has 10 examples, 5 fake and 5 reliable.      *)
C8_FivePerLabel ==
    op \in {"analyze", "classify", "extract_features", "summarize"} =>
        /\ detector.class_count["fake"] + detector.class_count["reliable"] = 10
        /\ detector.class_count["fake"] = 5
        /\ detector.class_count["reliable"] = 5

(* C8 amended: the seed set has 10 examples, 4 labelled fake and 6         *)
(* labelled reliable, and no call changes the model trained from it.       *)
C8_SeedSetFixed ==
    /\ Len(train_texts) = 10
    /\ Len(train_labels) = 10
    /\ detector.class_count = [c \in {"fake", "reliable"} |-> IF c = "fake" THEN 4 ELSE 6]
    /\ Cardinality(detector.vocabulary) = 40
    /\ detector.smoothed_total = [c \in {"fake", "reliable"} |-> IF c = "fake" THEN 59 ELSE 67]

C8_Witness ==
    /\ op = "analyze"
    /\ "analysis" \in DOMAIN ret
    /\ detector.class_count["reliable"] = 6

C10_EveryOptionRenders ==
    op = "main" =>
        /\ page = "[house] Home" => rendered = "render_home_page"
        /\ page = "[news] Analyze Article" => rendered = "render_analysis_page"
        /\ page = "[books] History" => rendered = "render_history_page"
        /\ page = "[cap] Learn" => rendered = "render_learn_page"

====
